---- MODULE Spec2Model ----
(***************************************************************************)
(* AssetDNA: the hierarchical asset store (create / move / copy / delete)  *)
(* and the BOM snapshots attached to assets.                               *)
(*                                                                         *)
(* The database is PostgreSQL (app/core/config.py).  Every request handler *)
(* runs in its own session: a handler that raises before `db.commit()`     *)
(* leaves the committed state untouched, so one handler is one action.     *)
(* Names and URNs are sequences of one-character strings, so that the      *)
(* suffix parsing, the formatting and the slug conversion are computed.    *)
(***************************************************************************)
EXTENDS Integers, Sequences, FiniteSets, TLC

\* ------------------------------------------------------------------ bounds
MaxAssets == 3
MaxBoms == 1

\* ------------------------------------------------------- program constants
PROBE_LIMIT == 1000
URN_PREFIX == "urn:assetdna"

\* None (an absent UUID); no stored row has this id
NULL == 0

\* external_id = None
None == "None"

\* ---------------------------------------------------------------- strings
DigitChars == <<"0", "1", "2", "3", "4", "5", "6", "7", "8", "9">>

IsDigit(c) == \E i \in 1..10 : DigitChars[i] = c

DigitVal(c) == (CHOOSE i \in 1..10 : DigitChars[i] = c) - 1

IsSpace(c) == c = " "

RECURSIVE IntToStr(_)
IntToStr(n) ==
    IF n < 10 THEN <<DigitChars[n + 1]>>
    ELSE IntToStr(n \div 10) \o <<DigitChars[(n % 10) + 1]>>

RECURSIVE StrToInt(_)
StrToInt(s) ==
    IF Len(s) = 0 THEN 0
    ELSE 10 * StrToInt(SubSeq(s, 1, Len(s) - 1)) + DigitVal(s[Len(s)])

RECURSIVE LStrip(_)
LStrip(s) ==
    IF Len(s) > 0 /\ IsSpace(s[1]) THEN LStrip(Tail(s)) ELSE s

RECURSIVE RStrip(_)
RStrip(s) ==
    IF Len(s) > 0 /\ IsSpace(s[Len(s)]) THEN RStrip(SubSeq(s, 1, Len(s) - 1)) ELSE s

Strip(s) == LStrip(RStrip(s))

UpperChars == <<"A", "B", "C", "D", "E", "F", "G", "H", "I", "J", "K", "L", "M",
                "N", "O", "P", "Q", "R", "S", "T", "U", "V", "W", "X", "Y", "Z">>

LowerChars == <<"a", "b", "c", "d", "e", "f", "g", "h", "i", "j", "k", "l", "m",
                "n", "o", "p", "q", "r", "s", "t", "u", "v", "w", "x", "y", "z">>

LowerChar(c) ==
    IF \E i \in 1..26 : UpperChars[i] = c
    THEN LowerChars[CHOOSE i \in 1..26 : UpperChars[i] = c]
    ELSE c

\* safe_name = self.name.lower().replace(" ", "-").replace("/", "-")
SafeName(name) ==
    [i \in 1..Len(name) |->
        LET c == LowerChar(name[i]) IN IF c = " " \/ c = "/" THEN "-" ELSE c]

\* re.match(r'^(.*?)\s*\((\d+)\)$', base_name): the name ends in "(" digits ")".
SuffixStart(name) ==
    IF Len(name) >= 3 /\ name[Len(name)] = ")"
       /\ \E p \in 1..(Len(name) - 2) :
              /\ name[p] = "("
              /\ \A i \in (p + 1)..(Len(name) - 1) : IsDigit(name[i])
    THEN CHOOSE p \in 1..(Len(name) - 2) :
              /\ name[p] = "("
              /\ \A i \in (p + 1)..(Len(name) - 1) : IsDigit(name[i])
    ELSE 0

HasNumberSuffix(name) == SuffixStart(name) > 0

SuffixBase_unstripped(name) == SubSeq(name, 1, SuffixStart(name) - 1)

\* match.group(1).strip()
SuffixBase(name) == Strip(SubSeq(name, 1, SuffixStart(name) - 1))

\* int(match.group(2))
SuffixNumber(name) == StrToInt(SubSeq(name, SuffixStart(name) + 1, Len(name) - 1))

\* f"{base_name} ({counter})"
NumberedName(base, counter) == base \o <<" ", "(">> \o IntToStr(counter) \o <<")">>

CopySuffix == <<" ", "(", "C", "o", "p", "y", ")">>

\* ------------------------------------------------------------ asset types
DOMAIN_SYSTEM_OF_SYSTEMS == "Domain / System of Systems"
SOFTWARE_CI == "Software CI"

AssetTypeNames ==
    {"Domain / System of Systems", "System / Environment", "Subsystem",
     "Component / Segment", "Configuration Item (CI)", "Hardware CI",
     "Software CI", "Firmware CI"}

\* the seeded catalog: can_have_bom per type
CanHaveBom(t) == IF t = DOMAIN_SYSTEM_OF_SYSTEMS THEN 0 ELSE 1

TypeCode(t) ==
    CASE t = "Domain / System of Systems" -> "domain"
      [] t = "System / Environment" -> "sys"
      [] t = "Subsystem" -> "subsys"
      [] t = "Component / Segment" -> "comp"
      [] t = "Configuration Item (CI)" -> "ci"
      [] t = "Hardware CI" -> "hw"
      [] t = "Software CI" -> "sw"
      [] t = "Firmware CI" -> "fw"
      [] OTHER -> "asset"

\* f"{settings.URN_PREFIX}:{type_code}:{safe_name}"
generate_urn(t, name) == <<URN_PREFIX, ":", TypeCode(t), ":">> \o SafeName(name)

\* ------------------------------------------------------------------ state
VARIABLES
    assets,     \* table assets: id -> row
    boms,       \* table bom_history: id -> row, with its bom_items
    issued,     \* the asset ids uuid4() has returned so far
    last,       \* the last request and its HTTP response
    sessions    \* the requests whose database session has not committed yet

vars == <<assets, boms, issued, last, sessions>>

\* uuid4(): an identifier never returned before
NewId(used) == CHOOSE i \in 1..(Cardinality(used) + 1) : i \notin used

\* the id of a new bom_history row
NewBomId(used) == CHOOSE i \in 1..(Cardinality(used) + 1) : i \notin used

Remove(f, S) == [x \in (DOMAIN f) \ S |-> f[x]]

Put(f, k, v) == [x \in (DOMAIN f) \cup {k} |-> IF x = k THEN v ELSE f[x]]

Children_none(A, p) == {}

\* select(Asset).where(Asset.parent_id == p)
Children(A, p) == {c \in DOMAIN A : A[c].parent_id = p}

\* select(Asset).where(Asset.parent_id == p, Asset.name == name)
ByNameParent(A, name, p) == {c \in DOMAIN A : A[c].parent_id = p /\ A[c].name = name}

\* select(Asset).where(Asset.urn == urn)
ByUrn(A, urn) == {c \in DOMAIN A : A[c].urn = urn}

UniqueViolation_name_only(A) ==
    \E a, b \in DOMAIN A :
        /\ a # b
        /\ A[a].parent_id # NULL
        /\ A[a].parent_id = A[b].parent_id
        /\ A[a].name = A[b].name

\* UniqueConstraint('name', 'parent_id') and urn unique=True, as PostgreSQL
\* enforces them: rows whose parent_id is NULL never conflict on (name, parent_id).
UniqueViolation(A) ==
    \/ \E a, b \in DOMAIN A : a # b /\ A[a].urn = A[b].urn
    \/ \E a, b \in DOMAIN A :
          /\ a # b
          /\ A[a].parent_id # NULL
          /\ A[a].parent_id = A[b].parent_id
          /\ A[a].name = A[b].name

\* the HTTP response of a request: 200, or the HTTPException raised (404, 400),
\* or 500 for an exception no handler catches
Response(op, code, detail) == [op |-> op, code |-> code, detail |-> detail]

Init ==
    /\ assets = <<>>
    /\ boms = <<>>
    /\ issued = {}
    /\ last = Response("startup", 200, "")
    /\ sessions = <<>>

\* ----------------------------------------------------------- create_asset
create_asset(A, used, name, type_id, parent_id, external_id) ==
    IF type_id \notin AssetTypeNames
    THEN [code |-> 400, detail |-> "Invalid asset type", assets |-> A, id |-> NULL]
    ELSE IF parent_id # NULL /\ parent_id \notin DOMAIN A
    THEN [code |-> 400, detail |-> "Parent asset not found", assets |-> A, id |-> NULL]
    ELSE LET id == NewId(used)
             row == [name |-> name, parent_id |-> parent_id, asset_type |-> type_id,
                     urn |-> generate_urn(type_id, name), external_id |-> external_id]
             B == Put(A, id, row)
         IN IF UniqueViolation(B)
            THEN [code |-> 500, detail |-> "IntegrityError", assets |-> A, id |-> NULL]
            ELSE [code |-> 200, detail |-> "", assets |-> B, id |-> id]

CreateAsset(name, type_id, parent_id, external_id) ==
    /\ LET r == create_asset(assets, issued, name, type_id, parent_id, external_id)
       IN /\ assets' = r.assets
          /\ issued' = issued \cup DOMAIN r.assets
          /\ last' = Response("create", r.code, r.detail)
    /\ UNCHANGED <<boms, sessions>>

\* ------------------------------------------------------------- move_asset
\* is_descendant(potential_parent_id, potential_child_id), lines 323-335
is_descendant_self_only(A, potential_parent_id, potential_child_id) ==
    potential_parent_id = potential_child_id

RECURSIVE is_descendant(_, _, _)
is_descendant(A, potential_parent_id, potential_child_id) ==
    IF potential_parent_id = potential_child_id THEN TRUE
    ELSE \E child_id \in Children(A, potential_child_id) :
            is_descendant(A, potential_parent_id, child_id)

\* the while loop of lines 364-380; scalar_one_or_none() raises when two rows
\* match.  Result: [kind |-> "name" | "fallback" | "multiple", name, probes]
RECURSIVE MoveProbe(_, _, _, _, _)
MoveProbe(A, new_parent_id, base_name, counter, probes) ==
    IF counter <= PROBE_LIMIT
    THEN LET new_name == NumberedName(base_name, counter)
             found == ByNameParent(A, new_name, new_parent_id)
         IN IF found = {}
            THEN [kind |-> "name", name |-> new_name, probes |-> probes + 1]
            ELSE IF Cardinality(found) > 1
            THEN [kind |-> "multiple", name |-> new_name, probes |-> probes + 1]
            ELSE MoveProbe(A, new_parent_id, base_name, counter + 1, probes + 1)
    ELSE [kind |-> "fallback", name |-> base_name, probes |-> probes]

\* lines 316-320: a new parent is named and no row has that id
ParentMissing_never(A, new_parent_id) == FALSE

ParentMissing_or_owns_snapshots(A, new_parent_id) ==
    /\ new_parent_id # NULL
    /\ \/ new_parent_id \notin DOMAIN A
       \/ \E b \in DOMAIN boms : boms[b].asset_id = new_parent_id

ParentMissing(A, new_parent_id) == new_parent_id # NULL /\ new_parent_id \notin DOMAIN A

\* lines 373-383: the moved row; only name and parent_id are assigned
MovedRow_regenerates_urn(asset, new_name, new_parent_id) ==
    [asset EXCEPT !.name = new_name, !.parent_id = new_parent_id,
                  !.urn = generate_urn(asset.asset_type, new_name)]

MovedRow(asset, new_name, new_parent_id) ==
    [asset EXCEPT !.name = new_name, !.parent_id = new_parent_id]

\* lines 353-361: where the probe starts
MoveProbeStart_at_two(name) == IF HasNumberSuffix(name) THEN SuffixNumber(name) + 1 ELSE 2

MoveProbeBase(name) == IF HasNumberSuffix(name) THEN SuffixBase(name) ELSE name

MoveProbeStart(name) == IF HasNumberSuffix(name) THEN SuffixNumber(name) + 1 ELSE 1

move_asset(A, asset_id, new_parent_id, timestamp) ==
    LET fail(code, detail) == [code |-> code, detail |-> detail, assets |-> A, probes |-> 0]
    IN
    IF asset_id \notin DOMAIN A THEN fail(404, "Asset not found")
    ELSE IF ParentMissing(A, new_parent_id)
    THEN fail(400, "Parent asset not found")
    ELSE IF new_parent_id # NULL /\ is_descendant(A, new_parent_id, asset_id)
    THEN fail(400, "Cannot move an asset to its own descendant")
    ELSE
    LET asset == A[asset_id]
        name_check == IF new_parent_id # asset.parent_id
                      THEN ByNameParent(A, asset.name, new_parent_id)
                      ELSE {}
        probe == MoveProbe(A, new_parent_id, MoveProbeBase(asset.name),
                           MoveProbeStart(asset.name), 0)
        new_name == IF name_check = {} THEN asset.name
                    ELSE IF probe.kind = "name" THEN probe.name
                    ELSE NumberedName(probe.name, timestamp)
        B == [A EXCEPT ![asset_id] = MovedRow(asset, new_name, new_parent_id)]
    IN IF Cardinality(name_check) > 1 \/ (name_check # {} /\ probe.kind = "multiple")
       THEN fail(500, "MultipleResultsFound")
       ELSE IF UniqueViolation(B) THEN fail(500, "IntegrityError")
       ELSE [code |-> 200, detail |-> "", assets |-> B,
             probes |-> IF name_check = {} THEN 0 ELSE probe.probes]

MoveAsset(asset_id, new_parent_id, timestamp) ==
    /\ LET r == move_asset(assets, asset_id, new_parent_id, timestamp)
       IN /\ assets' = r.assets
          /\ last' = Response("move", r.code, r.detail)
    /\ UNCHANGED <<boms, issued, sessions>>

\* ------------------------------------------------------------- copy_asset
CopyProbe_unchecked(A, new_parent_id, copied_name, counter) ==
    [kind |-> "name", name |-> NumberedName(copied_name, counter)]

\* the while True loop of lines 155-167.  Result: [kind |-> "name" | "multiple", name]
RECURSIVE CopyProbe(_, _, _, _)
CopyProbe(A, new_parent_id, copied_name, counter) ==
    LET test_name == NumberedName(copied_name, counter)
        found == ByNameParent(A, test_name, new_parent_id)
    IN IF found = {} THEN [kind |-> "name", name |-> test_name]
       ELSE IF Cardinality(found) > 1 THEN [kind |-> "multiple", name |-> test_name]
       ELSE CopyProbe(A, new_parent_id, copied_name, counter + 1)

CopiedRow_keeps_external_id(asset, final_name, new_parent_id, urn) ==
    [name |-> final_name, parent_id |-> new_parent_id,
     asset_type |-> asset.asset_type, urn |-> urn,
     external_id |-> asset.external_id]

\* new_asset = Asset(...), lines 169-189
CopiedRow(asset, final_name, new_parent_id, urn) ==
    [name |-> final_name, parent_id |-> new_parent_id,
     asset_type |-> asset.asset_type, urn |-> urn,
     external_id |-> None]

\* the children of the source row in the order the query returns them; the
\* query has no ORDER BY, so the order is an input (ascending or descending id)
NextChild(S, descending) ==
    IF descending THEN CHOOSE c \in S : \A d \in S : d <= c
    ELSE CHOOSE c \in S : \A d \in S : c <= d

\* deep_copy_asset(asset, new_parent_id, db, name_suffix), lines 121-226.
\* st = [ok, detail, assets, used, map]: the session's rows so far, the ids
\* issued so far and, for every source row copied so far, the id of its copy.  hex8[id] is the value of
\* str(uuid.uuid4())[:8] drawn while copying row id.
RECURSIVE deep_copy_asset(_, _, _, _, _, _)
RECURSIVE copy_children(_, _, _, _, _, _)
deep_copy_asset(st, asset_id, new_parent_id, name_suffix, hex8, descending) ==
    LET A == st.assets
        asset == A[asset_id]
        copied_name == IF new_parent_id = asset.parent_id
                       THEN asset.name \o name_suffix ELSE asset.name
        existing_check == ByNameParent(A, copied_name, new_parent_id)
        probe == CopyProbe(A, new_parent_id, copied_name, 2)
        final_name == IF existing_check = {} THEN copied_name ELSE probe.name
        base_urn == generate_urn(asset.asset_type, final_name)
        new_id == NewId(st.used)
        new_asset == CopiedRow(asset, final_name, new_parent_id,
                               IF ByUrn(A, base_urn) # {}
                               THEN base_urn \o <<"-", hex8[asset_id]>>
                               ELSE base_urn)
        B == Put(A, new_id, new_asset)
    IN IF ~st.ok THEN st
       ELSE IF Cardinality(existing_check) > 1
               \/ (existing_check # {} /\ probe.kind = "multiple")
       THEN [st EXCEPT !.ok = FALSE, !.detail = "MultipleResultsFound"]
       ELSE IF UniqueViolation(B)
       THEN [st EXCEPT !.ok = FALSE, !.detail = "IntegrityError"]
       ELSE copy_children([st EXCEPT !.assets = B, !.used = st.used \cup {new_id},
                                     !.map = Put(st.map, asset_id, new_id)],
                          Children(B, asset_id), new_id, {}, hex8, descending)

\* the for loop of lines 218-224 over the children not yet visited
copy_children(st, children, new_parent_id, visited, hex8, descending) ==
    IF children \ visited = {} \/ ~st.ok THEN st
    ELSE LET child == NextChild(children \ visited, descending)
         IN copy_children(
                deep_copy_asset(st, child, new_parent_id, <<>>, hex8, descending),
                children, new_parent_id, visited \cup {child}, hex8, descending)

copy_asset(A, used, asset_id, new_parent_id, hex8, descending) ==
    LET fail(code, detail) == [code |-> code, detail |-> detail, assets |-> A, map |-> <<>>]
    IN
    IF asset_id \notin DOMAIN A THEN fail(404, "Asset not found")
    ELSE IF ParentMissing(A, new_parent_id)
    THEN fail(400, "Parent asset not found")
    ELSE IF new_parent_id # NULL /\ is_descendant(A, new_parent_id, asset_id)
    THEN fail(400, "Cannot copy an asset to its own descendant")
    ELSE LET st == deep_copy_asset(
                       [ok |-> TRUE, detail |-> "", assets |-> A, used |-> used, map |-> <<>>],
                       asset_id, new_parent_id, CopySuffix, hex8, descending)
         IN IF st.ok
            THEN [code |-> 200, detail |-> "", assets |-> st.assets, map |-> st.map]
            ELSE fail(500, st.detail)

\* the rows of the subtree rooted at id
RECURSIVE Subtree(_, _)
Subtree(A, id) ==
    {id} \cup UNION {Subtree(A, c) : c \in Children(A, id)}

RandomHex8 == {"0a1b2c3d", "9f8e7d6c"}

CopyAsset_copies_boms(asset_id, new_parent_id, hex8, descending) ==
    LET r == copy_asset(assets, issued, asset_id, new_parent_id, hex8, descending)
        owned == {b \in DOMAIN boms : boms[b].asset_id \in DOMAIN r.map}
    IN /\ assets' = r.assets
       /\ issued' = issued \cup DOMAIN r.assets
       /\ last' = Response("copy", r.code, r.detail)
       /\ boms' = IF owned = {} THEN boms
                  ELSE LET b == CHOOSE x \in owned : TRUE
                       IN Put(boms, NewBomId(DOMAIN boms),
                              [boms[b] EXCEPT !.asset_id = r.map[boms[b].asset_id]])
       /\ UNCHANGED sessions

CopyAsset(asset_id, new_parent_id, hex8, descending) ==
    /\ LET r == copy_asset(assets, issued, asset_id, new_parent_id, hex8, descending)
       IN /\ assets' = r.assets
          /\ issued' = issued \cup DOMAIN r.assets
          /\ last' = Response("copy", r.code, r.detail)
    /\ UNCHANGED <<boms, sessions>>

\* ----------------------------------------------------------- delete_asset
\* db.delete(asset): the ORM deletes the asset's bom_history rows and their
\* items (cascade="all, delete-orphan") and, the children backref having no
\* delete cascade, sets parent_id of the loaded children to NULL before the
\* DELETE is issued.
DeleteBlocked_never(A, asset_id, cascade) == FALSE

\* lines 296-305: without cascade, a child row blocks the delete
DeleteBlocked(A, asset_id, cascade) == ~cascade /\ Children(A, asset_id) # {}

delete_asset_keeps_snapshots(A, Bm, asset_id, cascade) ==
    IF asset_id \notin DOMAIN A
    THEN [code |-> 404, detail |-> "Asset not found", assets |-> A, boms |-> Bm]
    ELSE IF DeleteBlocked(A, asset_id, cascade)
    THEN [code |-> 400, detail |-> "Asset has children", assets |-> A, boms |-> Bm]
    ELSE [code |-> 200, detail |-> "",
          assets |-> Remove([c \in DOMAIN A |->
                               IF A[c].parent_id = asset_id
                               THEN [A[c] EXCEPT !.parent_id = NULL] ELSE A[c]],
                            {asset_id}),
          boms |-> Bm]

delete_asset(A, Bm, asset_id, cascade) ==
    IF asset_id \notin DOMAIN A
    THEN [code |-> 404, detail |-> "Asset not found", assets |-> A, boms |-> Bm]
    ELSE IF DeleteBlocked(A, asset_id, cascade)
    THEN [code |-> 400, detail |-> "Asset has children", assets |-> A, boms |-> Bm]
    ELSE [code |-> 200, detail |-> "",
          assets |-> Remove([c \in DOMAIN A |->
                               IF A[c].parent_id = asset_id
                               THEN [A[c] EXCEPT !.parent_id = NULL] ELSE A[c]],
                            {asset_id}),
          boms |-> Remove(Bm, {b \in DOMAIN Bm : Bm[b].asset_id = asset_id})]

DeleteAsset(asset_id, cascade) ==
    LET r == delete_asset(assets, boms, asset_id, cascade)
    IN /\ assets' = r.assets
       /\ boms' = r.boms
       /\ last' = Response("delete", r.code, r.detail)
       /\ UNCHANGED <<issued, sessions>>

\* ------------------------------------------------------------- upload_bom
\* dict.get(key, default)
Get(d, key, default) == IF key \in DOMAIN d THEN d[key] ELSE default

\* lines 58-65
BomFormat(bom_data) ==
    IF "bomFormat" \in bom_data.markers /\ "specVersion" \in bom_data.markers
    THEN "CycloneDX"
    ELSE IF "spdxVersion" \in bom_data.markers THEN "SPDX"
    ELSE "custom"

\* lines 68-80
Components(bom_data) ==
    LET bom_format == BomFormat(bom_data)
    IN IF bom_format = "CycloneDX" THEN Get(bom_data.arrays, "components", <<>>)
       ELSE IF bom_format = "SPDX" THEN Get(bom_data.arrays, "packages", <<>>)
       ELSE IF "components" \in DOMAIN bom_data.arrays THEN bom_data.arrays["components"]
       ELSE IF "packages" \in DOMAIN bom_data.arrays THEN bom_data.arrays["packages"]
       ELSE IF "items" \in DOMAIN bom_data.arrays THEN bom_data.arrays["items"]
       ELSE <<>>

\* f"comp_{components.index(comp)}": the index of the first equal component
PositionalIds == <<"comp_0", "comp_1", "comp_2", "comp_3">>

IndexOf(components, comp) ==
    (CHOOSE i \in 1..Len(components) :
        /\ components[i] = comp
        /\ \A j \in 1..(i - 1) : components[j] # comp) - 1

\* lines 101-135: the BOMItem made from one component
BomItem(bom_format, components, comp) ==
    IF bom_format = "CycloneDX"
    THEN [component_id |-> Get(comp, "bom-ref", Get(comp, "name", "unknown")),
          component_name |-> Get(comp, "name", "Unknown Component"),
          version |-> Get(comp, "version", ""),
          component_type |-> Get(comp, "type", "library"),
          license |-> IF "licenses" \in DOMAIN comp /\ comp["licenses"] # <<>>
                      THEN comp["licenses"][1] ELSE ""]
    ELSE IF bom_format = "SPDX"
    THEN [component_id |-> Get(comp, "SPDXID", Get(comp, "name", "unknown")),
          component_name |-> Get(comp, "name", "Unknown Component"),
          version |-> Get(comp, "versionInfo", ""),
          component_type |-> "package",
          license |-> Get(comp, "licenseConcluded", "")]
    ELSE [component_id |-> Get(comp, "id", Get(comp, "name",
                               PositionalIds[IndexOf(components, comp) + 1])),
          component_name |-> Get(comp, "name", Get(comp, "title", "Unknown Component")),
          version |-> Get(comp, "version", Get(comp, "ver", "")),
          component_type |-> Get(comp, "type", "component"),
          license |-> Get(comp, "license", "")]

\* datetime.utcnow() of a new row: later than every stored bom_date
UtcNow(Bm) ==
    IF DOMAIN Bm = {} THEN 1
    ELSE 1 + (CHOOSE d \in {Bm[b].bom_date : b \in DOMAIN Bm} :
                 \A b \in DOMAIN Bm : Bm[b].bom_date <= d)

upload_bom(A, Bm, asset_id, file, version) ==
    LET fail(code, detail) == [code |-> code, detail |-> detail, boms |-> Bm, id |-> NULL]
    IN
    IF asset_id \notin DOMAIN A THEN fail(404, "Asset not found")
    ELSE IF Children(A, asset_id) # {}
    THEN fail(400, "BOMs can only be uploaded for leaf-level assets")
    ELSE IF ~file.json_name THEN fail(400, "Currently only JSON format is supported")
    ELSE IF ~file.valid_json THEN fail(400, "Invalid JSON file")
    ELSE
    LET bom_data == file.bom_data
        bom_format == BomFormat(bom_data)
        components == Components(bom_data)
        bom_items == [i \in 1..Len(components) |->
                         BomItem(bom_format, components, components[i])]
        unique_licenses == {bom_items[i].license : i \in 1..Len(bom_items)} \ {""}
        id == NewBomId(DOMAIN Bm)
        bom_history == [asset_id |-> asset_id,
                        bom_version |-> version,
                        bom_date |-> UtcNow(Bm),
                        bom_format |-> bom_format,
                        total_components |-> Len(components),
                        total_licenses |-> Cardinality(unique_licenses),
                        components_added |-> 0,
                        components_removed |-> 0,
                        components_updated |-> 0,
                        bom_items |-> bom_items]
    IN [code |-> 200, detail |-> "", boms |-> Put(Bm, id, bom_history), id |-> id]

UploadBOM(asset_id, file, version) ==
    /\ LET r == upload_bom(assets, boms, asset_id, file, version)
       IN /\ boms' = r.boms
          /\ last' = Response("upload", r.code, r.detail)
    /\ UNCHANGED <<assets, issued, sessions>>

\* ------------------------------------------------------------ update_asset
\* update_data = asset_data.model_dump(exclude_unset=True): the fields the
\* request names, here among name, parent_id and asset_type_id
update_asset(A, asset_id, update_data) ==
    LET fail(code, detail) == [code |-> code, detail |-> detail, assets |-> A]
        names(field) == field \in DOMAIN update_data
    IN
    IF asset_id \notin DOMAIN A THEN fail(404, "Asset not found")
    ELSE IF names("asset_type_id") /\ update_data["asset_type_id"] \notin AssetTypeNames
    THEN fail(400, "Invalid asset type")
    ELSE
    LET asset == A[asset_id]
        asset_type == IF names("asset_type_id") THEN update_data["asset_type_id"]
                      ELSE asset.asset_type
        name == IF names("name") THEN update_data["name"] ELSE asset.name
        parent_id == IF names("parent_id") THEN update_data["parent_id"]
                     ELSE asset.parent_id
        urn == IF names("name") \/ names("asset_type_id")
               THEN generate_urn(asset_type, name) ELSE asset.urn
        B == [A EXCEPT ![asset_id] =
                 [asset EXCEPT !.name = name, !.parent_id = parent_id,
                               !.asset_type = asset_type, !.urn = urn]]
    IN IF ParentMissing(A, parent_id) \/ UniqueViolation(B)
       THEN fail(500, "IntegrityError")
       ELSE [code |-> 200, detail |-> "", assets |-> B]

UpdateAsset(asset_id, update_data) ==
    /\ LET r == update_asset(assets, asset_id, update_data)
       IN /\ assets' = r.assets
          /\ last' = Response("update", r.code, r.detail)
    /\ UNCHANGED <<boms, issued, sessions>>

\* ------------------------------------------------------------- import_json
\* name_to_id: a set of [name, id] entries, one per name
Mapped(name_to_id, name) == \E e \in name_to_id : e.name = name

Lookup(name_to_id, name) == (CHOOSE e \in name_to_id : e.name = name).id

\* name_to_id[name] = id
Assign(name_to_id, name, id) ==
    {e \in name_to_id : e.name # name} \cup {[name |-> name, id |-> id]}

\* lines 257-292, first pass: one row per item, at the root; a flush the
\* store refuses leaves the session unusable (ok = FALSE)
RECURSIVE first_pass(_, _, _)
first_pass(st, data, idx) ==
    IF idx > Len(data) \/ ~st.ok THEN st
    ELSE LET item == data[idx]
         IN IF item.asset_type \notin AssetTypeNames
            THEN first_pass(st, data, idx + 1)
            ELSE LET id == NewId(st.used)
                     row == [name |-> item.name, parent_id |-> NULL,
                             asset_type |-> item.asset_type,
                             urn |-> generate_urn(item.asset_type, item.name),
                             external_id |-> None]
                     B == Put(st.assets, id, row)
                 IN IF UniqueViolation(B)
                    THEN [st EXCEPT !.ok = FALSE]
                    ELSE first_pass([assets |-> B, used |-> st.used \cup {id},
                                     name_to_id |-> Assign(st.name_to_id, item.name, id),
                                     ok |-> TRUE],
                                    data, idx + 1)

\* lines 295-305, second pass: parent_name (absent or empty: <<>>) resolved
\* among the imported names, the asset found by its name
RECURSIVE second_pass(_, _, _)
second_pass(st, data, idx) ==
    IF idx > Len(data) \/ ~st.ok THEN st
    ELSE LET item == data[idx]
         IN IF item.parent_name # <<>> /\ Mapped(st.name_to_id, item.name)
               /\ Mapped(st.name_to_id, item.parent_name)
            THEN LET found == {c \in DOMAIN st.assets : st.assets[c].name = item.name}
                 IN IF Cardinality(found) > 1
                    THEN [st EXCEPT !.ok = FALSE]
                    ELSE LET asset == CHOOSE c \in found : TRUE
                         IN second_pass(
                               [st EXCEPT !.assets[asset].parent_id =
                                             Lookup(st.name_to_id, item.parent_name)],
                               data, idx + 1)
            ELSE second_pass(st, data, idx + 1)

import_json(A, used, data) ==
    LET p1 == first_pass([assets |-> A, used |-> used, name_to_id |-> {}, ok |-> TRUE],
                         data, 1)
        p2 == second_pass(p1, data, 1)
    IN IF ~p2.ok \/ UniqueViolation(p2.assets)
       THEN [code |-> 500, detail |-> "import failed", assets |-> A]
       ELSE [code |-> 200, detail |-> "", assets |-> p2.assets]

ImportJson(data) ==
    /\ LET r == import_json(assets, issued, data)
       IN /\ assets' = r.assets
          /\ issued' = issued \cup DOMAIN r.assets
          /\ last' = Response("import", r.code, r.detail)
    /\ UNCHANGED <<boms, sessions>>

\* -------------------------------------------------------------- delete_bom
\* lines 235-257; db.delete(bom) removes the snapshot with its items
\* (bom_items: cascade="all, delete-orphan")
delete_bom(Bm, asset_id, bom_id) ==
    IF bom_id \notin DOMAIN Bm \/ Bm[bom_id].asset_id # asset_id
    THEN [code |-> 404, detail |-> "BOM not found", boms |-> Bm]
    ELSE [code |-> 200, detail |-> "", boms |-> Remove(Bm, {bom_id})]

DeleteBOM(asset_id, bom_id) ==
    /\ LET r == delete_bom(boms, asset_id, bom_id)
       IN /\ boms' = r.boms
          /\ last' = Response("delete_bom", r.code, r.detail)
    /\ UNCHANGED <<assets, issued, sessions>>

\* ------------------------------------------- BOMHistory.calculate_changes
\* previous_bom = None
NoBom == [none |-> TRUE]

\* set(item.component_id for item in bom.bom_items)
ComponentIds(bom) == {bom.bom_items[i].component_id : i \in 1..Len(bom.bom_items)}

\* next(i for i in bom.bom_items if i.component_id == comp_id)
FirstItem(bom, comp_id) ==
    bom.bom_items[CHOOSE i \in 1..Len(bom.bom_items) :
                     /\ bom.bom_items[i].component_id = comp_id
                     /\ \A j \in 1..(i - 1) : bom.bom_items[j].component_id # comp_id]

VersionChanged_always(self, previous_bom, comp_id) == TRUE

\* lines 79-83: current_item.version != previous_item.version
VersionChanged(self, previous_bom, comp_id) ==
    FirstItem(self, comp_id).version # FirstItem(previous_bom, comp_id).version

\* lines 58-87
calculate_changes(self, previous_bom) ==
    IF previous_bom = NoBom
    THEN [added |-> self.total_components, removed |-> 0, updated |-> 0]
    ELSE LET current_components == ComponentIds(self)
             previous_components == ComponentIds(previous_bom)
             common == current_components \cap previous_components
         IN [added |-> Cardinality(current_components \ previous_components),
             removed |-> Cardinality(previous_components \ current_components),
             updated |-> Cardinality({comp_id \in common :
                                        VersionChanged(self, previous_bom, comp_id)})]

\* ---------------------------------------------------------------- requests
NameB == <<"B">>

\* int(time.time())
Timestamps == {1762421000}

CycloneDXFile ==
    [json_name |-> TRUE, valid_json |-> TRUE,
     bom_data |-> [markers |-> {"bomFormat", "specVersion"},
                   arrays |-> [components |->
                       <<[name |-> "X", version |-> "1.0"]>>]]]

TextFile == [json_name |-> FALSE, valid_json |-> FALSE,
             bom_data |-> [markers |-> {}, arrays |-> <<>>]]

\* the values hex8 can take for a copy of asset_id: one draw per copied row
HexDraws(A, asset_id) ==
    IF asset_id \in DOMAIN A THEN [Subtree(A, asset_id) -> RandomHex8]
    ELSE {<<>>}

\* the number of rows a copy of asset_id inserts
CopySize(A, asset_id) ==
    IF asset_id \in DOMAIN A THEN Cardinality(Subtree(A, asset_id)) ELSE 0

\* the orders in which the children queries can return their rows
ChildOrders(A, asset_id) ==
    IF asset_id \in DOMAIN A
       /\ \E c \in Subtree(A, asset_id) : Cardinality(Children(A, c)) > 1
    THEN BOOLEAN ELSE {FALSE}

\* ----------------------------------------------- Spec: all five requests
\* requests name the ids 1..MaxAssets, issued or not, and no parent (NULL)
Ids == 1..MaxAssets

Names == {NameB}

TypeIds == {DOMAIN_SYSTEM_OF_SYSTEMS, SOFTWARE_CI, "no-such-type"}

Files == {CycloneDXFile, TextFile}

Create == \E name \in Names, type_id \in TypeIds, parent_id \in Ids \cup {NULL} :
             /\ Cardinality(issued) < MaxAssets
             /\ CreateAsset(name, type_id, parent_id, None)

Move == \E asset_id \in Ids, new_parent_id \in Ids \cup {NULL},
           timestamp \in Timestamps :
           MoveAsset(asset_id, new_parent_id, timestamp)

Copy == \E asset_id \in Ids, new_parent_id \in Ids \cup {NULL} :
           /\ Cardinality(issued) + CopySize(assets, asset_id) <= MaxAssets
           /\ \E hex8 \in HexDraws(assets, asset_id),
                 descending \in ChildOrders(assets, asset_id) :
                 CopyAsset(asset_id, new_parent_id, hex8, descending)

Delete == \E asset_id \in Ids, cascade \in BOOLEAN : DeleteAsset(asset_id, cascade)

Upload == \E asset_id \in Ids, file \in Files :
             /\ Cardinality(DOMAIN boms) < MaxBoms
             /\ UploadBOM(asset_id, file, "v1")

Next == Create \/ Move \/ Copy \/ Delete \/ Upload

Spec == Init /\ [][Next]_vars

\* ------------------------- SpecNames: Create and Move over numbered names
NameB1 == <<"B", " ", "(", "1", ")">>
NameB_1 == <<"B", " ", " ", "(", "1", ")">>

NumberedNames == {NameB, NameB1, NameB_1}

CreateNamed == \E name \in NumberedNames,
                  type_id \in {DOMAIN_SYSTEM_OF_SYSTEMS, SOFTWARE_CI},
                  parent_id \in Ids \cup {NULL} :
                  /\ Cardinality(issued) < MaxAssets
                  /\ CreateAsset(name, type_id, parent_id, None)

NextNames == CreateNamed \/ Move

SpecNames == Init /\ [][NextNames]_vars

\* ------------- SpecCopy: Copy and Upload from a stored tree with a snapshot
MaxCopyAssets == 6
MaxCopyBoms == 2

NameX == <<"X">>
NameY == <<"Y">>
NameZ == <<"Z">>

\* the rows after POST /assets of "X" at the root and of "Y" and "Z" under it,
\* each with an external id, and one snapshot uploaded for "Y"
StoredTree ==
    LET x == create_asset(<<>>, {}, NameX, DOMAIN_SYSTEM_OF_SYSTEMS, NULL, "OTOBO-1")
        y == create_asset(x.assets, DOMAIN x.assets, NameY, SOFTWARE_CI, x.id, "OTOBO-2")
        z == create_asset(y.assets, DOMAIN y.assets, NameZ, SOFTWARE_CI, x.id, "OTOBO-3")
        u == upload_bom(z.assets, <<>>, y.id, CycloneDXFile, "v1")
    IN [assets |-> z.assets, boms |-> u.boms]

InitCopy ==
    /\ assets = StoredTree.assets
    /\ boms = StoredTree.boms
    /\ issued = DOMAIN StoredTree.assets
    /\ last = Response("upload", 200, "")
    /\ sessions = <<>>

CopyIds == 1..MaxCopyAssets

CopyStored == \E asset_id \in CopyIds, new_parent_id \in CopyIds \cup {NULL} :
                 /\ Cardinality(issued) + CopySize(assets, asset_id) <= MaxCopyAssets
                 /\ \E hex8 \in HexDraws(assets, asset_id),
                       descending \in ChildOrders(assets, asset_id) :
                       CopyAsset(asset_id, new_parent_id, hex8, descending)

UploadStored == \E asset_id \in CopyIds, file \in Files :
                   /\ Cardinality(DOMAIN boms) < MaxCopyBoms
                   /\ UploadBOM(asset_id, file, "v2")

NextCopy == CopyStored \/ UploadStored

SpecCopy == InitCopy /\ [][NextCopy]_vars

\* ------------------- SpecBom: uploads of component lists for two leaf assets
MaxDiffBoms == 2

ComponentX10 == [name |-> "X", version |-> "1.0"]
ComponentX11 == [name |-> "X", version |-> "1.1"]
ComponentZ10 == [name |-> "Z", version |-> "1.0"]

\* the component arrays of the uploaded documents: up to two components, a
\* name possibly repeated
ComponentLists ==
    LET S == {ComponentX10, ComponentX11, ComponentZ10}
    IN {<<>>} \cup {<<c>> : c \in S} \cup {<<c, d>> : c \in S, d \in S}

CycloneDXDocument(components) ==
    [json_name |-> TRUE, valid_json |-> TRUE,
     bom_data |-> [markers |-> {"bomFormat", "specVersion"},
                   arrays |-> [components |-> components]]]

\* the rows after POST /assets of two "Software CI" assets at the root
StoredLeaves ==
    LET y == create_asset(<<>>, {}, <<"Y">>, SOFTWARE_CI, NULL, None)
        z == create_asset(y.assets, DOMAIN y.assets, <<"Z">>, SOFTWARE_CI, NULL, None)
    IN z.assets

InitBom ==
    /\ assets = StoredLeaves
    /\ boms = <<>>
    /\ issued = DOMAIN StoredLeaves
    /\ last = Response("create", 200, "")
    /\ sessions = <<>>

UploadDocument == \E asset_id \in DOMAIN StoredLeaves, components \in ComponentLists :
                     /\ Cardinality(DOMAIN boms) < MaxDiffBoms
                     /\ UploadBOM(asset_id, CycloneDXDocument(components), "v1")

\* JSON objects without "components", "packages" or "items": {}, a CycloneDX
\* header only, an SPDX header only
BareDocuments ==
    {[json_name |-> TRUE, valid_json |-> TRUE,
      bom_data |-> [markers |-> m, arrays |-> <<>>]] :
        m \in {{}, {"bomFormat", "specVersion"}, {"spdxVersion"}}}

UploadBare == \E asset_id \in DOMAIN StoredLeaves, file \in BareDocuments :
                 /\ Cardinality(DOMAIN boms) < MaxDiffBoms
                 /\ UploadBOM(asset_id, file, "v1")

NextBom == UploadDocument \/ UploadBare

SpecBom == InitBom /\ [][NextBom]_vars

\* --------------------- SpecStore: the requests of Spec and BOM deletion
DeleteBom == \E asset_id \in Ids, bom_id \in 1..MaxBoms : DeleteBOM(asset_id, bom_id)

NextStore == Next \/ DeleteBom

SpecStore == Init /\ [][NextStore]_vars

\* ------------------ SpecUpdate: Create, PUT /assets/{id} and JSON import
NameA == <<"A">>
NameC == <<"C">>

UpdateRequests ==
    {[parent_id |-> p] : p \in Ids \cup {NULL}}
    \cup {[name |-> NameA, parent_id |-> p] : p \in Ids \cup {NULL}}
    \cup {[name |-> NameA], [asset_type_id |-> SOFTWARE_CI],
          [asset_type_id |-> "no-such-type"]}

ImportItems ==
    {[name |-> n, asset_type |-> t, parent_name |-> q] :
        n \in {NameA, NameC}, t \in {DOMAIN_SYSTEM_OF_SYSTEMS, "no-such-type"},
        q \in {<<>>, NameA, NameC}}

ImportFiles == {<<i>> : i \in ImportItems} \cup {<<i, j>> : i \in ImportItems, j \in ImportItems}

Update == \E asset_id \in Ids, update_data \in UpdateRequests :
             UpdateAsset(asset_id, update_data)

Import == \E data \in ImportFiles :
             /\ Cardinality(issued) + Len(data) <= MaxAssets
             /\ ImportJson(data)

NextUpdate == Create \/ Update \/ Import

SpecUpdate == Init /\ [][NextUpdate]_vars

\* ----------- SpecProbe: Create and Move over names numbered near the limit
NameB999 == <<"B", " ", "(", "9", "9", "9", ")">>
NameB1000 == <<"B", " ", "(", "1", "0", "0", "0", ")">>

CreateNearLimit == \E name \in {NameB999, NameB1000},
                      type_id \in {DOMAIN_SYSTEM_OF_SYSTEMS, SOFTWARE_CI},
                      parent_id \in Ids \cup {NULL} :
                      /\ Cardinality(issued) < MaxAssets
                      /\ CreateAsset(name, type_id, parent_id, None)

NextProbe == CreateNearLimit \/ Move

SpecProbe == Init /\ [][NextProbe]_vars

\* ---------------- SpecRace: two clients whose database sessions overlap
\* Each request runs in its own AsyncSession (get_db): its SELECTs read the
\* rows committed so far, and its writes reach the table at db.commit(),
\* where the store checks the unique and foreign key constraints.
Clients == {"c1", "c2"}

Session(op, pc, code, args, row) ==
    [op |-> op, pc |-> pc, code |-> code, args |-> args, row |-> row]

NoRow == [none |-> TRUE]

\* create_asset lines 201-211: the two SELECTs
create_checks(A, type_id, parent_id) ==
    IF type_id \notin AssetTypeNames
    THEN [code |-> 400, detail |-> "Invalid asset type"]
    ELSE IF parent_id # NULL /\ parent_id \notin DOMAIN A
    THEN [code |-> 400, detail |-> "Parent asset not found"]
    ELSE [code |-> 200, detail |-> ""]

\* create_asset lines 214-219: the INSERT at commit
create_commit(A, used, row) ==
    LET id == NewId(used)
        B == Put(A, id, row)
    IN IF ParentMissing(A, row.parent_id) \/ UniqueViolation(B)
       THEN [code |-> 500, detail |-> "IntegrityError", assets |-> A]
       ELSE [code |-> 200, detail |-> "", assets |-> B]

BeginCreate(c, name, type_id, parent_id) ==
    /\ c \notin DOMAIN sessions
    /\ LET r == create_checks(assets, type_id, parent_id)
           args == [name |-> name, type_id |-> type_id, parent_id |-> parent_id]
           row == [name |-> name, parent_id |-> parent_id, asset_type |-> type_id,
                   urn |-> generate_urn(type_id, name), external_id |-> None]
       IN IF r.code = 200
          THEN /\ sessions' = Put(sessions, c, Session("create", "pending", 0, args, row))
               /\ last' = last
          ELSE /\ sessions' = Put(sessions, c, Session("create", "done", r.code, args, NoRow))
               /\ last' = Response("create", r.code, r.detail)
    /\ UNCHANGED <<assets, boms, issued>>

CommitCreate(c) ==
    /\ c \in DOMAIN sessions
    /\ sessions[c].op = "create" /\ sessions[c].pc = "pending"
    /\ LET r == create_commit(assets, issued, sessions[c].row)
       IN /\ assets' = r.assets
          /\ issued' = issued \cup DOMAIN r.assets
          /\ sessions' = [sessions EXCEPT ![c].pc = "done", ![c].code = r.code]
          /\ last' = Response("create", r.code, r.detail)
    /\ UNCHANGED boms

\* move_asset lines 312-380: the lookups, the descendant check and the name
\* resolution, all on the rows committed when they run
move_checks(A, asset_id, new_parent_id, timestamp) ==
    LET fail(code, detail) == [code |-> code, detail |-> detail, row |-> NoRow]
    IN
    IF asset_id \notin DOMAIN A THEN fail(404, "Asset not found")
    ELSE IF ParentMissing(A, new_parent_id)
    THEN fail(400, "Parent asset not found")
    ELSE IF new_parent_id # NULL /\ is_descendant(A, new_parent_id, asset_id)
    THEN fail(400, "Cannot move an asset to its own descendant")
    ELSE
    LET asset == A[asset_id]
        name_check == IF new_parent_id # asset.parent_id
                      THEN ByNameParent(A, asset.name, new_parent_id)
                      ELSE {}
        probe == MoveProbe(A, new_parent_id, MoveProbeBase(asset.name),
                           MoveProbeStart(asset.name), 0)
        new_name == IF name_check = {} THEN asset.name
                    ELSE IF probe.kind = "name" THEN probe.name
                    ELSE NumberedName(probe.name, timestamp)
    IN IF Cardinality(name_check) > 1 \/ (name_check # {} /\ probe.kind = "multiple")
       THEN fail(500, "MultipleResultsFound")
       ELSE [code |-> 200, detail |-> "",
             row |-> MovedRow(asset, new_name, new_parent_id)]

\* move_asset lines 373-385: UPDATE assets SET name, parent_id WHERE id
move_commit(A, asset_id, row) ==
    IF asset_id \notin DOMAIN A
    THEN [code |-> 500, detail |-> "StaleDataError", assets |-> A]
    ELSE LET B == [A EXCEPT ![asset_id] = MovedRow(A[asset_id], row.name, row.parent_id)]
         IN IF ParentMissing(A, row.parent_id) \/ UniqueViolation(B)
            THEN [code |-> 500, detail |-> "IntegrityError", assets |-> A]
            ELSE [code |-> 200, detail |-> "", assets |-> B]

BeginMove(c, asset_id, new_parent_id, timestamp) ==
    /\ c \notin DOMAIN sessions
    /\ LET r == move_checks(assets, asset_id, new_parent_id, timestamp)
           args == [asset_id |-> asset_id, new_parent_id |-> new_parent_id]
       IN IF r.code = 200
          THEN /\ sessions' = Put(sessions, c, Session("move", "pending", 0, args, r.row))
               /\ last' = last
          ELSE /\ sessions' = Put(sessions, c, Session("move", "done", r.code, args, NoRow))
               /\ last' = Response("move", r.code, r.detail)
    /\ UNCHANGED <<assets, boms, issued>>

CommitMove(c) ==
    /\ c \in DOMAIN sessions
    /\ sessions[c].op = "move" /\ sessions[c].pc = "pending"
    /\ LET r == move_commit(assets, sessions[c].args.asset_id, sessions[c].row)
       IN /\ assets' = r.assets
          /\ sessions' = [sessions EXCEPT ![c].pc = "done", ![c].code = r.code]
          /\ last' = Response("move", r.code, r.detail)
    /\ UNCHANGED <<boms, issued>>

\* the rows after POST /assets of "A" and of "B", both at the root
StoredPair ==
    LET a == create_asset(<<>>, {}, NameA, DOMAIN_SYSTEM_OF_SYSTEMS, NULL, None)
        b == create_asset(a.assets, DOMAIN a.assets, NameB, DOMAIN_SYSTEM_OF_SYSTEMS,
                          NULL, None)
    IN b.assets

InitRace ==
    /\ assets = StoredPair
    /\ boms = <<>>
    /\ issued = DOMAIN StoredPair
    /\ last = Response("create", 200, "")
    /\ sessions = <<>>

RaceCreateBegins == \E c \in Clients, type_id \in {DOMAIN_SYSTEM_OF_SYSTEMS, SOFTWARE_CI},
                       parent_id \in DOMAIN StoredPair \cup {NULL} :
                       BeginCreate(c, NameC, type_id, parent_id)

RaceCreateCommits == \E c \in Clients : CommitCreate(c)

RaceMoveBegins == \E c \in Clients, asset_id \in DOMAIN StoredPair,
                     new_parent_id \in DOMAIN StoredPair \cup {NULL},
                     timestamp \in Timestamps :
                     BeginMove(c, asset_id, new_parent_id, timestamp)

RaceMoveCommits == \E c \in Clients : CommitMove(c)

NextRace == RaceCreateBegins \/ RaceCreateCommits \/ RaceMoveBegins \/ RaceMoveCommits

SpecRace == InitRace /\ [][NextRace]_vars

\* ------------- SpecWalk: Copy and Move run one database statement at a time
\* One request at a time; its session is sessions.w while it runs.  The
\* recursion of is_descendant and of deep_copy_asset is kept as a stack of the
\* calls still to be made, in the order the recursion makes them.
RECURSIVE InOrder(_, _)
InOrder(S, descending) ==
    IF S = {} THEN <<>>
    ELSE LET c == NextChild(S, descending)
         IN <<c>> \o InOrder(S \ {c}, descending)

WalkChildren_with_parent(A, asset_id, descending) ==
    <<asset_id>> \o InOrder(Children(A, asset_id), descending)

\* select(Asset).where(Asset.parent_id == asset_id), as a list
WalkChildren(A, asset_id, descending) == InOrder(Children(A, asset_id), descending)

\* deep_copy_asset line 143
CopiedName(asset, new_parent_id, name_suffix) ==
    IF new_parent_id = asset.parent_id THEN asset.name \o name_suffix ELSE asset.name

\* deep_copy_asset lines 169-205: the new row and its URN
new_row(st, asset_id, new_parent_id, final_name, hex8) ==
    LET asset == st.assets[asset_id]
        base_urn == generate_urn(asset.asset_type, final_name)
    IN CopiedRow(asset, final_name, new_parent_id,
                 IF ByUrn(st.assets, base_urn) # {}
                 THEN base_urn \o <<"-", hex8[asset_id]>>
                 ELSE base_urn)

\* deep_copy_asset lines 208-209: db.add(new_asset) and db.flush()
flush_row(st, asset_id, new_asset) ==
    LET new_id == NewId(st.used)
        B == Put(st.assets, new_id, new_asset)
    IN IF UniqueViolation(B)
       THEN [st EXCEPT !.ok = FALSE, !.detail = "IntegrityError"]
       ELSE [st EXCEPT !.assets = B, !.used = st.used \cup {new_id},
                       !.map = Put(st.map, asset_id, new_id)]

Call(asset_id, new_parent_id, name_suffix) ==
    [asset_id |-> asset_id, new_parent_id |-> new_parent_id, name_suffix |-> name_suffix]

\* the calls deep_copy_asset makes for the children, lines 212-224
RECURSIVE ChildCalls(_, _)
ChildCalls(children, new_parent_id) ==
    IF children = <<>> THEN <<>>
    ELSE <<Call(Head(children), new_parent_id, <<>>)>>
         \o ChildCalls(Tail(children), new_parent_id)

Running == "w" \in DOMAIN sessions

\* the request is answered and its session closed
Answer(op, code, detail) ==
    /\ sessions' = <<>>
    /\ last' = Response(op, code, detail)

\* copy_asset lines 243-262 and move_asset lines 312-320: the lookups
WalkBegin(op, asset_id, new_parent_id, hex8, descending, timestamp) ==
    /\ ~Running
    /\ IF asset_id \notin DOMAIN assets THEN Answer(op, 404, "Asset not found")
       ELSE IF ParentMissing(assets, new_parent_id)
       THEN Answer(op, 400, "Parent asset not found")
       ELSE /\ sessions' =
                 [w |-> [op |-> op,
                         pc |-> IF new_parent_id # NULL THEN "check" ELSE op,
                         asset_id |-> asset_id, new_parent_id |-> new_parent_id,
                         hex8 |-> hex8, descending |-> descending,
                         timestamp |-> timestamp,
                         check_stack |-> IF new_parent_id # NULL THEN <<asset_id>>
                                         ELSE <<>>,
                         copy_stack |-> <<Call(asset_id, new_parent_id, CopySuffix)>>,
                         counter |-> 0,
                         st |-> [ok |-> TRUE, detail |-> "", assets |-> assets,
                                 used |-> issued, map |-> <<>>],
                         visited |-> <<>>]]
            /\ last' = last
    /\ UNCHANGED <<assets, boms, issued>>

\* one call of is_descendant(potential_parent_id, potential_child_id)
WalkCheck ==
    /\ Running /\ sessions.w.pc = "check"
    /\ LET s == sessions.w
           potential_child_id == Head(s.check_stack)
           calls == WalkChildren(assets, potential_child_id, s.descending)
                    \o Tail(s.check_stack)
       IN IF s.new_parent_id = potential_child_id
          THEN Answer(s.op, 400, IF s.op = "copy"
                                 THEN "Cannot copy an asset to its own descendant"
                                 ELSE "Cannot move an asset to its own descendant")
          ELSE /\ sessions' = [sessions EXCEPT
                                 !.w.check_stack = calls,
                                 !.w.pc = IF calls = <<>> THEN s.op ELSE "check"]
               /\ last' = last
    /\ UNCHANGED <<assets, boms, issued>>

\* the row is inserted; the calls for its children go on top of the stack
Inserted(s, call, final_name) ==
    \E new_asset \in {new_row(s.st, call.asset_id, call.new_parent_id, final_name,
                               s.hex8)} :
    \E st \in {flush_row(s.st, call.asset_id, new_asset)} :
       IF ~st.ok THEN Answer("copy", 500, st.detail)
       ELSE \E calls \in {ChildCalls(WalkChildren(st.assets, call.asset_id, s.descending),
                                     st.map[call.asset_id])
                          \o Tail(s.copy_stack)} :
               /\ sessions' = [sessions EXCEPT
                                 !.w.st = st,
                                 !.w.copy_stack = calls,
                                 !.w.visited = Append(s.visited, call.asset_id),
                                 !.w.counter = 0,
                                 !.w.pc = IF calls = <<>> THEN "commit" ELSE "copy"]
               /\ last' = last

\* one call of deep_copy_asset up to the while loop
WalkCopy ==
    /\ Running /\ sessions.w.pc = "copy"
    /\ LET s == sessions.w
           call == Head(s.copy_stack)
           copied_name == CopiedName(s.st.assets[call.asset_id], call.new_parent_id,
                                     call.name_suffix)
           existing_check == ByNameParent(s.st.assets, copied_name, call.new_parent_id)
       IN IF Cardinality(existing_check) > 1
          THEN Answer("copy", 500, "MultipleResultsFound")
          ELSE IF existing_check = {} THEN Inserted(s, call, copied_name)
          ELSE /\ sessions' = [sessions EXCEPT !.w.pc = "probe", !.w.counter = 2]
               /\ last' = last
    /\ UNCHANGED <<assets, boms, issued>>

\* one iteration of the while True loop, lines 155-167
WalkProbe ==
    /\ Running /\ sessions.w.pc = "probe"
    /\ LET s == sessions.w
           call == Head(s.copy_stack)
           copied_name == CopiedName(s.st.assets[call.asset_id], call.new_parent_id,
                                     call.name_suffix)
           test_name == NumberedName(copied_name, s.counter)
           check == ByNameParent(s.st.assets, test_name, call.new_parent_id)
       IN IF Cardinality(check) > 1
          THEN Answer("copy", 500, "MultipleResultsFound")
          ELSE IF check = {} THEN Inserted(s, call, test_name)
          ELSE /\ sessions' = [sessions EXCEPT !.w.counter = s.counter + 1]
               /\ last' = last
    /\ UNCHANGED <<assets, boms, issued>>

\* copy_asset line 285: db.commit()
WalkCommit ==
    /\ Running /\ sessions.w.pc = "commit"
    /\ assets' = sessions.w.st.assets
    /\ issued' = sessions.w.st.used
    /\ Answer("copy", 200, "")
    /\ UNCHANGED boms

\* move_asset lines 343-385: the name resolution and the UPDATE
WalkMove ==
    /\ Running /\ sessions.w.pc = "move"
    /\ LET s == sessions.w
           r == move_asset(assets, s.asset_id, s.new_parent_id, s.timestamp)
       IN /\ assets' = r.assets
          /\ Answer("move", r.code, r.detail)
    /\ UNCHANGED <<boms, issued>>

\* requests name the stored rows and one id that is not stored; the Moves
\* are requested before the first Copy
WalkIds == DOMAIN StoredTree.assets \cup {MaxCopyAssets + 1}

WalkCopyBegins ==
    \E asset_id \in WalkIds, new_parent_id \in WalkIds \cup {NULL} :
       /\ Cardinality(issued) + CopySize(assets, asset_id) <= MaxCopyAssets
       /\ \E descending \in ChildOrders(assets, asset_id) :
             WalkBegin("copy", asset_id, new_parent_id,
                       CHOOSE hex8 \in HexDraws(assets, asset_id) : TRUE, descending,
                       CHOOSE t \in Timestamps : TRUE)

WalkMoveBegins ==
    \E asset_id \in WalkIds, new_parent_id \in WalkIds \cup {NULL},
       timestamp \in Timestamps :
       /\ DOMAIN assets = DOMAIN StoredTree.assets
       /\ \E descending \in ChildOrders(assets, asset_id) :
             WalkBegin("move", asset_id, new_parent_id, <<>>, descending, timestamp)

WalkSteps == WalkCheck \/ WalkCopy \/ WalkProbe \/ WalkCommit \/ WalkMove

NextWalk == WalkCopyBegins \/ WalkMoveBegins \/ WalkCheck \/ WalkCopy \/ WalkProbe
            \/ WalkCommit \/ WalkMove

\* a request that has started is run on: the event loop resumes every
\* coroutine whose awaited statement has returned
SpecWalk == InitCopy /\ [][NextWalk]_vars /\ WF_vars(WalkSteps)

\* ================================================================ claims
\* the chain of parent_id values above id, walked at most n links
RECURSIVE AncestorChain(_, _, _)
AncestorChain(A, id, n) ==
    IF n = 0 \/ id \notin DOMAIN A \/ A[id].parent_id = NULL THEN {}
    ELSE {A[id].parent_id} \cup AncestorChain(A, A[id].parent_id, n - 1)

Ancestors(A, id) == AncestorChain(A, id, Cardinality(DOMAIN A) + 1)

\* p is id itself or lies in the subtree below id
InSubtreeOf(A, p, id) == p = id \/ id \in Ancestors(A, p)

HexSuffixed(urn, base) == \E h \in RandomHex8 : urn = base \o <<"-", h>>

\* C1: no asset appears in its own ancestor chain, in every state reachable
\* through Move (and the other requests), accepted or rejected.
C1_NoAssetIsItsOwnAncestor ==
    \A a \in DOMAIN assets : a \notin Ancestors(assets, a)

\* a Move was accepted and left a chain of three assets
C1_Witness ==
    /\ last.op = "move" /\ last.code = 200
    /\ \E a, b \in DOMAIN assets :
          assets[a].parent_id = b /\ assets[b].parent_id # NULL

\* C2: at most one asset holds a given (name, parent_id) pair, the root level
\* (parent_id = NULL) included.
C2_NameParentUnique ==
    \A a, b \in DOMAIN assets :
        (a # b /\ assets[a].parent_id = assets[b].parent_id)
            => assets[a].name # assets[b].name

\* C3: no two assets have the same urn, and a Copy whose generated URN is
\* already stored gives the new row that URN plus "-" and a random suffix.
C3_UrnUnique ==
    /\ [](\A a, b \in DOMAIN assets : a # b => assets[a].urn # assets[b].urn)
    /\ [][(last'.op = "copy" /\ last'.code = 200) =>
            \A c \in (DOMAIN assets') \ (DOMAIN assets) :
               LET base == generate_urn(assets'[c].asset_type, assets'[c].name)
               IN IF \E e \in DOMAIN assets : assets[e].urn = base
                  THEN HexSuffixed(assets'[c].urn, base)
                  ELSE assets'[c].urn = base \/ HexSuffixed(assets'[c].urn, base)]_vars

\* a Copy was accepted and one row carries a disambiguated URN
C3_Witness ==
    /\ last.op = "copy" /\ last.code = 200
    /\ \E c \in DOMAIN assets :
          HexSuffixed(assets[c].urn, generate_urn(assets[c].asset_type, assets[c].name))

\* C4: a Move between two existing assets answers 400 "own descendant" exactly
\* when the new parent is the asset or lies below it, and then changes nothing.
C4_MoveCycleRejectedExactly ==
    [][last'.op = "move" =>
       \A a \in DOMAIN assets, np \in DOMAIN assets, t \in Timestamps :
          MoveAsset(a, np, t) =>
             /\ (last'.code = 400) <=> InSubtreeOf(assets, np, a)
             /\ (last'.code = 400) =>
                   /\ assets' = assets
                   /\ last'.detail = "Cannot move an asset to its own descendant"]_vars

\* a Move under a proper descendant was rejected
C4_Witness ==
    /\ last.op = "move" /\ last.code = 400
    /\ last.detail = "Cannot move an asset to its own descendant"
    /\ \E a \in DOMAIN assets : assets[a].parent_id # NULL

\* C5 as claimed: Move answers NotFound (404) when the asset is missing and
\* when a non-null new parent is missing, changing nothing.
C5_Original ==
    [][last'.op = "move" =>
       \A a \in Ids, np \in Ids \cup {NULL}, t \in Timestamps :
          (MoveAsset(a, np, t)
             /\ (a \notin DOMAIN assets \/ (np # NULL /\ np \notin DOMAIN assets)))
          => (last'.code = 404 /\ assets' = assets)]_vars

\* C5 as amended: a missing asset gives 404; an existing asset with a missing
\* non-null new parent gives 400 "Parent asset not found"; nothing changes.
C5_MoveMissingRows ==
    [][last'.op = "move" =>
       \A a \in Ids, np \in Ids \cup {NULL}, t \in Timestamps :
          MoveAsset(a, np, t) =>
             /\ a \notin DOMAIN assets =>
                   (last'.code = 404 /\ assets' = assets /\ boms' = boms)
             /\ (a \in DOMAIN assets /\ np # NULL /\ np \notin DOMAIN assets) =>
                   /\ last'.code = 400 /\ last'.detail = "Parent asset not found"
                   /\ assets' = assets /\ boms' = boms]_vars

\* a Move of an existing asset to a missing parent was answered
C5_Witness ==
    /\ last.op = "move" /\ last.code = 400
    /\ last.detail = "Parent asset not found"
    /\ assets # <<>>

\* the accepted Move steps that change the parent of a onto a taken name
MoveOntoTakenName(a, np, t) ==
    /\ MoveAsset(a, np, t)
    /\ last'.code = 200
    /\ np # assets[a].parent_id
    /\ \E c \in DOMAIN assets :
          assets[c].parent_id = np /\ assets[c].name = assets[a].name

\* name "(" digits ")" : the position of the "(" that opens a final integer
FinalParen(name) ==
    {p \in 1..Len(name) :
        /\ name[p] = "("
        /\ p + 1 < Len(name)
        /\ name[Len(name)] = ")"
        /\ \A i \in (p + 1)..(Len(name) - 1) : name[i] \in
              {"0", "1", "2", "3", "4", "5", "6", "7", "8", "9"}}

EndsInParenInt(name) == FinalParen(name) # {}

\* "<text> (<k>)"
Numbered(text, k) == text \o <<" ", "(">> \o IntToStr(k) \o <<")">>

Taken(A, name, p) == \E c \in DOMAIN A : A[c].parent_id = p /\ A[c].name = name

\* the smallest k >= from with "<text> (<k>)" free under p; at most one more
\* than the number of rows
FirstFree(A, text, p, from) ==
    CHOOSE k \in from..(from + Cardinality(DOMAIN A)) :
        /\ ~Taken(A, Numbered(text, k), p)
        /\ \A j \in from..(k - 1) : Taken(A, Numbered(text, j), p)

\* C6 as claimed: a moved asset whose name N has no final "(integer)" and is
\* taken under the new parent becomes "N (k)" for the smallest free k >= 2.
C6_Original ==
    [][last'.op = "move" =>
       \A a \in DOMAIN assets, np \in Ids \cup {NULL}, t \in Timestamps :
          (MoveOntoTakenName(a, np, t) /\ ~EndsInParenInt(assets[a].name)) =>
             assets'[a].name =
                Numbered(assets[a].name, FirstFree(assets, assets[a].name, np, 2))]_vars

\* C6 as amended: the probe starts at 1, so the asset becomes "N (k)" for the
\* smallest free k >= 1 (k <= 1000); "B" moved next to a root "B" becomes "B (1)".
C6_MoveRenamesFromOne ==
    [][last'.op = "move" =>
       \A a \in DOMAIN assets, np \in Ids \cup {NULL}, t \in Timestamps :
          (MoveOntoTakenName(a, np, t) /\ ~EndsInParenInt(assets[a].name)) =>
             (FirstFree(assets, assets[a].name, np, 1) <= PROBE_LIMIT =>
                 assets'[a].name =
                    Numbered(assets[a].name, FirstFree(assets, assets[a].name, np, 1)))]_vars

\* a Move to the root found "B" and "B (1)" taken and named the asset "B (2)"
C6_Witness ==
    /\ last.op = "move" /\ last.code = 200
    /\ \E a, b, c \in DOMAIN assets :
          /\ assets[a].parent_id = NULL /\ assets[a].name = <<"B">>
          /\ assets[b].parent_id = NULL /\ assets[b].name = <<"B", " ", "(", "1", ")">>
          /\ assets[c].parent_id = NULL /\ assets[c].name = <<"B", " ", "(", "2", ")">>

\* the name "<base> (<n>)" read literally: base is all the text before " (<n>)"
LiteralBase(name) ==
    LET p == CHOOSE q \in FinalParen(name) : TRUE IN SubSeq(name, 1, p - 2)

FinalNumber(name) ==
    LET p == CHOOSE q \in FinalParen(name) : TRUE
    IN StrToInt(SubSeq(name, p + 1, Len(name) - 1))

HasLiteralForm(name) ==
    /\ EndsInParenInt(name)
    /\ LET p == CHOOSE q \in FinalParen(name) : TRUE IN p > 1 /\ name[p - 1] = " "

\* text without its leading and trailing blanks
Trimmed(text) ==
    LET keep == {i \in 1..Len(text) : text[i] # " "}
    IN IF keep = {} THEN <<>>
       ELSE SubSeq(text, CHOOSE i \in keep : \A j \in keep : i <= j,
                         CHOOSE i \in keep : \A j \in keep : j <= i)

\* C7 as claimed: a moved asset named "<base> (<n>)" whose name is taken under
\* the new parent becomes "<base> (<k>)", k the smallest free number >= n + 1.
C7_Original ==
    [][last'.op = "move" =>
       \A a \in DOMAIN assets, np \in Ids \cup {NULL}, t \in Timestamps :
          (MoveOntoTakenName(a, np, t) /\ HasLiteralForm(assets[a].name)) =>
             LET base == LiteralBase(assets[a].name)
                 k == FirstFree(assets, base, np, FinalNumber(assets[a].name) + 1)
             IN k <= PROBE_LIMIT => assets'[a].name = Numbered(base, k)]_vars

\* C7 as amended: the new name is "<b> (<k>)" where <b> is <base> without its
\* leading and trailing blanks, k the smallest free number >= n + 1 (k <= 1000).
C7_MoveRenamesFromSuffix ==
    [][last'.op = "move" =>
       \A a \in DOMAIN assets, np \in Ids \cup {NULL}, t \in Timestamps :
          (MoveOntoTakenName(a, np, t) /\ HasLiteralForm(assets[a].name)) =>
             LET b == Trimmed(LiteralBase(assets[a].name))
                 k == FirstFree(assets, b, np, FinalNumber(assets[a].name) + 1)
             IN k <= PROBE_LIMIT => assets'[a].name = Numbered(b, k)]_vars

\* an asset created as "B  (1)" was moved onto that name and is now "B (2)"
C7_Witness ==
    /\ last.op = "move" /\ last.code = 200
    /\ \E a, b \in DOMAIN assets :
          /\ a # b /\ assets[a].parent_id = assets[b].parent_id
          /\ assets[b].name = <<"B", " ", " ", "(", "1", ")">>
          /\ assets[a].name = <<"B", " ", "(", "2", ")">>
          /\ assets[a].urn = generate_urn(assets[a].asset_type,
                                          <<"B", " ", " ", "(", "1", ")">>)

IsCopyOf(f, A, B, a, np) ==
    /\ {f[c] : c \in DOMAIN f} = DOMAIN B \ DOMAIN A
    /\ \A c, d \in DOMAIN f : f[c] = f[d] => c = d
    /\ B[f[a]].parent_id = np
    /\ \A c \in DOMAIN f :
          /\ c # a => B[f[c]].parent_id = f[A[c].parent_id]
          /\ c # a => B[f[c]].name = A[c].name
          /\ B[f[c]].asset_type = A[c].asset_type
          /\ B[f[c]].external_id = None

\* C9: in every reachable state, every Copy request (of those CopyStored
\* admits) that is accepted inserts one row per node of the source's subtree,
\* in the same parent/child shape, each with the type and (the root excepted)
\* the name of its source and with no external_id.
C9_CopyIsIsomorphic ==
    \A a \in {x \in DOMAIN assets :
                Cardinality(issued) + CopySize(assets, x) <= MaxCopyAssets},
       np \in DOMAIN assets \cup {NULL} :
       \A hex8 \in HexDraws(assets, a), descending \in ChildOrders(assets, a) :
          \A r \in {copy_asset(assets, issued, a, np, hex8, descending)} :
             r.code = 200 =>
                \A new \in {DOMAIN r.assets \ DOMAIN assets} :
                   /\ Cardinality(new) = Cardinality(Subtree(assets, a))
                   /\ \E f \in [Subtree(assets, a) -> new] :
                         IsCopyOf(f, assets, r.assets, a, np)

\* "X" with external id and children "Y" and "Z" has a copy "X (Copy)" with
\* children "Y" and "Z", none of the three with an external id
C9_Witness ==
    /\ last.op = "copy" /\ last.code = 200
    /\ \E x, y, z \in DOMAIN assets :
          /\ assets[x].name = <<"X">> \o CopySuffix
          /\ assets[y].parent_id = x /\ assets[y].name = <<"Y">>
          /\ assets[z].parent_id = x /\ assets[z].name = <<"Z">>
          /\ \A c \in {x, y, z} : assets[c].external_id = None
    /\ \E s \in DOMAIN assets :
          assets[s].name = <<"X">> /\ assets[s].external_id = "OTOBO-1"

\* C10: an accepted Copy stores no BOM snapshot for any row it inserted and
\* leaves every stored snapshot as it was.
C10_CopyCreatesNoSnapshots ==
    [][last'.op = "copy" /\ last'.code = 200 =>
       /\ \A b \in DOMAIN boms' : boms'[b].asset_id \notin DOMAIN assets' \ DOMAIN assets
       /\ boms' = boms]_vars

\* "Y", which owns a snapshot, has just been copied: a second "Y" with the
\* same type exists and owns none
C10_Witness ==
    /\ last.op = "copy" /\ last.code = 200
    /\ \E s, c \in DOMAIN assets :
          /\ s # c
          /\ assets[s].name = <<"Y">> /\ assets[c].name = <<"Y">>
          /\ assets[c].asset_type = assets[s].asset_type
          /\ \E b \in DOMAIN boms : boms[b].asset_id = s
          /\ \A b \in DOMAIN boms : boms[b].asset_id # c

\* the Copy requests CopyStored admits in the current state, with their results
AdmittedCopies ==
    {[a |-> a, np |-> np, r |-> copy_asset(assets, issued, a, np, hex8, descending)] :
        <<a, np, hex8, descending>> \in
           UNION {UNION {{<<x, y, h, d>> : h \in HexDraws(assets, x),
                                          d \in ChildOrders(assets, x)} :
                            y \in DOMAIN assets \cup {NULL}} :
                     x \in {z \in DOMAIN assets :
                               Cardinality(issued) + CopySize(assets, z) <= MaxCopyAssets}}}

\* the name a copy of a under np is to get
CopyRootName(a, np) ==
    LET computed == IF np = assets[a].parent_id
                    THEN assets[a].name \o <<" ", "(", "C", "o", "p", "y", ")">>
                    ELSE assets[a].name
    IN IF Taken(assets, computed, np)
       THEN Numbered(computed, FirstFree(assets, computed, np, 2))
       ELSE computed

\* C11: the root of an accepted copy of a under np is named N + " (Copy)" when
\* np is a's parent and N otherwise, or, that name being taken under np,
\* "<computed> (k)" for the smallest free k >= 2; every other inserted row has
\* the name of the source row it copies.
C11_CopyRootName ==
    \A q \in AdmittedCopies :
       q.r.code = 200 =>
          \A new \in {DOMAIN q.r.assets \ DOMAIN assets} :
             /\ \A n \in new :
                   q.r.assets[n].parent_id \notin new =>
                      q.r.assets[n].name = CopyRootName(q.a, q.np)
             /\ \E f \in [Subtree(assets, q.a) -> new] :
                   /\ \A c, d \in DOMAIN f : f[c] = f[d] => c = d
                   /\ \A c \in DOMAIN f \ {q.a} :
                         /\ q.r.assets[f[c]].name = assets[c].name
                         /\ q.r.assets[f[c]].parent_id = f[assets[c].parent_id]

\* "Y" has been copied twice into its own parent: "Y (Copy)" was taken and the
\* second copy is "Y (Copy) (2)"
C11_Witness ==
    /\ last.op = "copy" /\ last.code = 200
    /\ \E y, c, d \in DOMAIN assets :
          /\ assets[y].name = <<"Y">>
          /\ assets[c].parent_id = assets[y].parent_id
          /\ assets[d].parent_id = assets[y].parent_id
          /\ assets[c].name = <<"Y", " ", "(", "C", "o", "p", "y", ")">>
          /\ assets[d].name = <<"Y", " ", "(", "C", "o", "p", "y", ")",
                                " ", "(", "2", ")">>

Below(A, id) == {c \in DOMAIN A : InSubtreeOf(A, c, id)}

\* C13: Copy and cascading Delete are all-or-nothing: a Copy that fails
\* leaves no row, a Delete that fails removes nothing, and what a Delete
\* removes is a whole subtree, never a part of one.
C13_AllOrNothing ==
    [][/\ (last'.op = "copy" /\ last'.code # 200) => (assets' = assets /\ boms' = boms)
       /\ (last'.op = "delete" /\ last'.code # 200) => (assets' = assets /\ boms' = boms)
       /\ last'.op = "delete" =>
             \A removed \in {DOMAIN assets \ DOMAIN assets'} :
                removed = {} \/ \E a \in removed : removed = Below(assets, a)]_vars

\* C14: Delete without cascade of an asset that has a child answers
\* InvalidOperation (400) and leaves every asset and every BOM snapshot as it was.
C14_DeleteWithChildrenRefused ==
    [][last'.op = "delete" =>
       \A a \in DOMAIN assets :
          ((\E c \in DOMAIN assets : assets[c].parent_id = a) /\ DeleteAsset(a, FALSE)) =>
             /\ last'.code = 400
             /\ assets' = assets
             /\ boms' = boms]_vars

\* a Delete of an asset with a child has just been refused, a snapshot being stored
C14_Witness ==
    /\ last.op = "delete" /\ last.code = 400
    /\ \E a, b \in DOMAIN assets : assets[a].parent_id = b
    /\ boms # <<>>

\* C15: Delete with cascade of an existing asset removes the asset and every
\* asset below it, with the snapshots of the removed assets, and leaves every
\* other asset and every other snapshot as it was.
C15_CascadeRemovesSubtree ==
    [][last'.op = "delete" =>
       \A a \in DOMAIN assets :
          DeleteAsset(a, TRUE) =>
             /\ last'.code = 200
             /\ DOMAIN assets' = DOMAIN assets \ Below(assets, a)
             /\ \A c \in DOMAIN assets' : assets'[c] = assets[c]
             /\ DOMAIN boms' = {b \in DOMAIN boms : boms[b].asset_id \notin Below(assets, a)}
             /\ \A b \in DOMAIN boms' : boms'[b] = boms[b]]_vars

\* a step stored exactly one new row, under parent, and changed no stored row
StoredOneUnder(parent) ==
    /\ \A c \in DOMAIN assets : c \in DOMAIN assets' /\ assets'[c] = assets[c]
    /\ \E n \in DOMAIN assets' \ DOMAIN assets :
          /\ DOMAIN assets' = DOMAIN assets \cup {n}
          /\ assets'[n].parent_id = parent

CreateIsValid(type_id, parent) ==
    /\ type_id \in AssetTypeNames
    /\ parent = NULL \/ parent \in DOMAIN assets

C17_UploadToParentRefused ==
    [][last'.op = "upload" =>
       \A a \in DOMAIN assets, file \in Files :
          ((\E c \in DOMAIN assets : assets[c].parent_id = a) /\ UploadBOM(a, file, "v1")) =>
             /\ last'.code = 400
             /\ boms' = boms]_vars

\* an Upload for an asset with a child has just been refused
C17_Witness ==
    /\ last.op = "upload" /\ last.code = 400
    /\ last.detail = "BOMs can only be uploaded for leaf-level assets"
    /\ \E a, b \in DOMAIN assets : assets[a].parent_id = b

\* the snapshot of the same asset stored last before b, or NoBom
PreviousSnapshot(b) ==
    LET earlier == {p \in DOMAIN boms : /\ boms[p].asset_id = boms[b].asset_id
                                        /\ boms[p].bom_date < boms[b].bom_date}
    IN IF earlier = {} THEN NoBom
       ELSE boms[CHOOSE p \in earlier :
                    \A q \in earlier : boms[q].bom_date <= boms[p].bom_date]

\* C18: the added/removed/updated counts stored on every snapshot are the Diff
\* of the snapshot against the previous snapshot of the same asset; on the
\* first snapshot of an asset, added is its number of components.
C18_StoredCountsAreDiff ==
    \A b \in DOMAIN boms :
       /\ [added |-> boms[b].components_added,
           removed |-> boms[b].components_removed,
           updated |-> boms[b].components_updated]
             = calculate_changes(boms[b], PreviousSnapshot(b))
       /\ PreviousSnapshot(b) = NoBom =>
             boms[b].components_added = boms[b].total_components

\* the ids and, per id, the version a snapshot records
IdsOf(bom) == {bom.bom_items[i].component_id : i \in DOMAIN bom.bom_items}

RecordedVersion(bom, x) ==
    LET at == {i \in DOMAIN bom.bom_items : bom.bom_items[i].component_id = x}
    IN bom.bom_items[CHOOSE i \in at : \A j \in at : i <= j].version

\* C19: for any two stored snapshots, with C and P their sets of component
\* ids, Diff gives added = |C \ P|, removed = |P \ C| and updated = the number
\* of ids of both whose recorded versions differ.
C19_DiffCounts ==
    \A c, p \in DOMAIN boms :
       LET d == calculate_changes(boms[c], boms[p])
           C == IdsOf(boms[c])
           P == IdsOf(boms[p])
       IN /\ d.added = Cardinality(C \ P)
          /\ d.removed = Cardinality(P \ C)
          /\ d.updated = Cardinality({x \in C \cap P :
                            RecordedVersion(boms[c], x) # RecordedVersion(boms[p], x)})

\* "X" at "1.0" and then "X" at "1.1" are stored for one asset; Diff of the
\* second against the first is 0 added, 0 removed, 1 updated
C19_Witness ==
    /\ last.op = "upload" /\ last.code = 200
    /\ \E c, p \in DOMAIN boms :
          /\ boms[p].asset_id = boms[c].asset_id
          /\ boms[p].bom_date < boms[c].bom_date
          /\ IdsOf(boms[p]) = {"X"} /\ RecordedVersion(boms[p], "X") = "1.0"
          /\ IdsOf(boms[c]) = {"X"} /\ RecordedVersion(boms[c], "X") = "1.1"
          /\ calculate_changes(boms[c], boms[p]) = [added |-> 0, removed |-> 0, updated |-> 1]

\* C20: Diff of a snapshot against no previous snapshot gives added = its
\* total number of components, removed = 0, updated = 0, which is the general
\* rule with P empty: added = the number of distinct component ids.
C20_DiffAgainstNothing ==
    \A b \in DOMAIN boms :
       LET d == calculate_changes(boms[b], NoBom)
       IN /\ d.added = boms[b].total_components
          /\ d.removed = 0
          /\ d.updated = 0
          /\ d.added = Cardinality(IdsOf(boms[b]))

\* C21: an upload of a document that has no components array under any
\* known key ("components", "packages", "items") is refused and stores no
\* snapshot.
C21_BareDocumentRefused ==
    [][last'.op = "upload" =>
        \A asset_id \in DOMAIN assets, file \in BareDocuments :
            UploadBOM(asset_id, file, "v1") => last'.code # 200 /\ boms' = boms]_vars

\* C22: of two overlapping Create requests for the same name under the same
\* parent (or both at the root) exactly one succeeds, the other is refused
\* as an invalid operation (400), and the two rows are never both stored.
C22_ConcurrentCreates ==
    \A c \in DOMAIN sessions, d \in DOMAIN sessions :
       (/\ c # d
        /\ sessions[c].op = "create" /\ sessions[d].op = "create"
        /\ sessions[c].pc = "done" /\ sessions[d].pc = "done"
        /\ sessions[c].args.name = sessions[d].args.name
        /\ sessions[c].args.parent_id = sessions[d].args.parent_id)
       => /\ {sessions[c].code, sessions[d].code} = {200, 400}
          /\ Cardinality(ByNameParent(assets, sessions[c].args.name,
                                      sessions[c].args.parent_id)) = 1

\* C27: when two Move requests overlap, each passing its descendant check
\* before the other commits, the committed rows hold no cycle: no asset is
\* its own ancestor once both sessions are done.
C27_ConcurrentMovesCommitNoCycle ==
    (\A c \in Clients : /\ c \in DOMAIN sessions
                         /\ sessions[c].op = "move" /\ sessions[c].pc = "done")
    => \A a \in DOMAIN assets : a \notin Ancestors(assets, a)

\* C23: the name resolution of Move probes at most 1000 candidate names, and
\* the moved asset gets the timestamp name only after 1000 probes have each
\* found their candidate taken; otherwise it gets a probed name that is free.
C23_FallbackAfterThousandProbes ==
    [][last'.op = "move" =>
       \A a \in DOMAIN assets, np \in Ids \cup {NULL}, t \in Timestamps :
          MoveOntoTakenName(a, np, t) =>
             LET r == move_asset(assets, a, np, t)
             IN /\ r.probes <= 1000
                /\ IF FinalNumber(assets'[a].name) = t
                   THEN r.probes = 1000
                   ELSE ~Taken(assets, assets'[a].name, np)]_vars

\* the asset p owns a BOM snapshot
OwnsSnapshots(p) == \E b \in DOMAIN boms : boms[b].asset_id = p

\* C24: only UploadBOM checks the leaf-only rule: a Create, Move or Copy that
\* places a child under an asset owning BOM snapshots is not refused for that
\* (a Create with a valid type, a Move or Copy of a stored asset to a parent
\* outside its subtree is never answered 400; such a Move is accepted), the
\* child is stored under that parent, and the snapshots are as before.
C24_ChildUnderSnapshotOwner ==
    /\ [][last'.op = "create" =>
          \A name \in Names, type_id \in AssetTypeNames, p \in DOMAIN assets :
             (OwnsSnapshots(p) /\ CreateAsset(name, type_id, p, None)) =>
                /\ boms' = boms
                /\ last'.code # 400
                /\ last'.code = 200 =>
                      \E c \in DOMAIN assets' \ DOMAIN assets : assets'[c].parent_id = p]_vars
    /\ [][last'.op = "move" =>
          \A a \in DOMAIN assets, np \in DOMAIN assets, t \in Timestamps :
             (OwnsSnapshots(np) /\ ~InSubtreeOf(assets, np, a) /\ MoveAsset(a, np, t)) =>
                /\ boms' = boms
                /\ last'.code = 200
                /\ assets'[a].parent_id = np]_vars
    /\ [][last'.op = "copy" =>
          \A a \in DOMAIN assets, np \in DOMAIN assets :
             (OwnsSnapshots(np) /\ ~InSubtreeOf(assets, np, a)) =>
                \A hex8 \in HexDraws(assets, a), descending \in BOOLEAN :
                   CopyAsset(a, np, hex8, descending) =>
                      /\ boms' = boms
                      /\ last'.code # 400
                      /\ last'.code = 200 =>
                            \E c \in DOMAIN assets' \ DOMAIN assets :
                               assets'[c].parent_id = np]_vars

\* an asset that owns a snapshot has a child whose URN carries the random
\* suffix of a copy, and the last request was an accepted Copy
C24_Witness ==
    /\ last.op = "copy" /\ last.code = 200
    /\ \E c \in DOMAIN assets :
          /\ assets[c].parent_id # NULL
          /\ OwnsSnapshots(assets[c].parent_id)
          /\ HexSuffixed(assets[c].urn, generate_urn(assets[c].asset_type, assets[c].name))

\* C25: within every stored snapshot the component_id values of the items
\* are pairwise distinct, ids taken from a fallback (bom-ref missing, so the
\* component name) included.
C25_ComponentIdsDistinct ==
    \A b \in DOMAIN boms :
       \A i, j \in 1..Len(boms[b].bom_items) :
          i # j => boms[b].bom_items[i].component_id # boms[b].bom_items[j].component_id

\* C26: no request that can assign parent_id makes an asset its own ancestor:
\* after any sequence of Create, update_asset and import_json requests,
\* following parent_id from an asset never comes back to it.
C26_UpdateAndImportKeepForest ==
    last.op \in {"create", "update", "import"} =>
       \A a \in DOMAIN assets : a \notin Ancestors(assets, a)

C29_SnapshotsOnlyWhereTypeAllows ==
    \A b \in DOMAIN boms :
       boms[b].asset_id \in DOMAIN assets =>
          CanHaveBom(assets[boms[b].asset_id].asset_type) # 0

\* the entries of a sequence are pairwise different
NoRepeats(seq) == \A i, j \in 1..Len(seq) : seq[i] = seq[j] => i = j

\* C30: on a finite acyclic tree every accepted Copy terminates: the deep
\* copy visits each node of the source subtree exactly once and no node the
\* same Copy created, its name probe stops after at most one probe per row,
\* and the descendant check of Move and Copy ends; every request that has
\* started is answered.
C30_CopyTerminates ==
    /\ [](Running =>
            /\ NoRepeats(sessions.w.visited)
            /\ \A i \in 1..Len(sessions.w.visited) :
                  sessions.w.visited[i] \in Subtree(assets, sessions.w.asset_id)
            /\ NoRepeats(sessions.w.check_stack)
            /\ sessions.w.counter <= Cardinality(DOMAIN sessions.w.st.assets) + 2)
    /\ [][WalkCommit =>
            /\ {sessions.w.visited[i] : i \in 1..Len(sessions.w.visited)}
                  = Subtree(assets, sessions.w.asset_id)
            /\ DOMAIN assets' \ DOMAIN assets
                  = {sessions.w.st.map[c] : c \in Subtree(assets, sessions.w.asset_id)}
            /\ assets' = copy_asset(assets, issued, sessions.w.asset_id,
                                    sessions.w.new_parent_id, sessions.w.hex8,
                                    sessions.w.descending).assets]_vars
    /\ (Running ~> ~Running)

\* a Copy of a three-node subtree has inserted two rows and has one call of
\* deep_copy_asset left to make
C30_Witness ==
    /\ Running
    /\ sessions.w.op = "copy" /\ sessions.w.pc = "copy"
    /\ Len(sessions.w.visited) = 2
    /\ Len(sessions.w.copy_stack) = 1

====
